---- MODULE Spec2Model ----
(***************************************************************************)
(* Root finding for polynomials over a prime field:                        *)
(* fmpz_mod_poly_roots and its helper _fmpz_mod_poly_push_roots            *)
(* (src/fmpz_mod_poly_factor/roots.c).                                     *)
(*                                                                         *)
(* A polynomial is the sequence of its coefficients in 0..p-1, constant    *)
(* term first, leading coefficient nonzero; the zero polynomial is <<>>.   *)
(* The arithmetic below is the arithmetic of the fmpz_mod_poly layer the   *)
(* two functions call, computed coefficient by coefficient.                *)
(***************************************************************************)
EXTENDS Integers, Sequences, FiniteSets

(* ------------------------------ bounds -------------------------------- *)

\* Largest degree of an input polynomial.
MaxDeg == 3

\* Width of the machine word the model is run with; FLINT_BITS is 64 or 32
\* in a build, and the stack discipline of the drain loop is the same at
\* every width.
WordBits == 2

\* The field orders: four below the tiny-field threshold, one above.
Primes == {2, 3, 5, 7, 11}

\* Leading coefficients of the inputs (besides 1): every nonzero leading
\* coefficient leaves the engine on the same monic polynomial.
Leads(p) == {1, p - 1}

\* Capacities the caller's output list may arrive with.
Allocs == {0, 1}

(* --------------------------- field and polynomials -------------------- *)

MaxOf(S) == CHOOSE m \in S : \A k \in S : k <= m

\* fmpz_mod_poly_degree: length - 1, so -1 for the zero polynomial.
Deg(f) == Len(f) - 1

Coef(f, k) == IF k >= 0 /\ k < Len(f) THEN f[k + 1] ELSE 0

\* _fmpz_mod_poly_normalise: drop leading zero coefficients.
Norm(s) ==
    LET nz == {i \in 1..Len(s) : s[i] # 0}
    IN  IF nz = {} THEN << >> ELSE SubSeq(s, 1, MaxOf(nz))

\* fmpz_invmod in the prime field.
InvMod(a, p) == CHOOSE b \in 1..(p - 1) : (a * b) % p = 1

\* fmpz_negmod
NegMod(a, p) == (p - (a % p)) % p

PolyAdd(f, g, p) ==
    LET n == IF Len(f) > Len(g) THEN Len(f) ELSE Len(g)
    IN  Norm([i \in 1..n |-> (Coef(f, i - 1) + Coef(g, i - 1)) % p])

PolySub(f, g, p) ==
    LET n == IF Len(f) > Len(g) THEN Len(f) ELSE Len(g)
    IN  Norm([i \in 1..n |-> (Coef(f, i - 1) + p - Coef(g, i - 1)) % p])

PolyScale(f, c, p) == Norm([i \in 1..Len(f) |-> (f[i] * c) % p])

\* c * x^k
Monomial(c, k, p) ==
    IF c % p = 0 THEN << >> ELSE [i \in 1..(k + 1) |-> IF i = k + 1 THEN c % p ELSE 0]

RECURSIVE ConvSum(_, _, _, _, _)
ConvSum(f, g, k, i, p) ==
    IF i > Len(f) THEN 0
    ELSE (f[i] * Coef(g, k - i) + ConvSum(f, g, k, i + 1, p)) % p

PolyMul(f, g, p) ==
    IF f = << >> \/ g = << >> THEN << >>
    ELSE Norm([k \in 1..(Len(f) + Len(g) - 1) |-> ConvSum(f, g, k, 1, p)])

\* fmpz_mod_poly_make_monic
MakeMonic(f, p) == IF f = << >> THEN f ELSE PolyScale(f, InvMod(f[Len(f)], p), p)

\* fmpz_mod_poly_divrem: schoolbook division, g nonzero.
RECURSIVE DivRem(_, _, _)
DivRem(f, g, p) ==
    IF Len(f) < Len(g) THEN [q |-> << >>, r |-> f]
    ELSE LET c    == (f[Len(f)] * InvMod(g[Len(g)], p)) % p
             m    == Monomial(c, Len(f) - Len(g), p)
             rest == DivRem(PolySub(f, PolyMul(m, g, p), p), g, p)
         IN  [q |-> PolyAdd(m, rest.q, p), r |-> rest.r]

PolyRem(f, g, p) == DivRem(f, g, p).r

PolyDiv(f, g, p) == DivRem(f, g, p).q

\* fmpz_mod_poly_gcd: Euclid's algorithm, the result monic (gcd(0,0) = 0).
RECURSIVE PolyGcd(_, _, _)
PolyGcd(f, g, p) ==
    IF g = << >> THEN MakeMonic(f, p) ELSE PolyGcd(g, PolyRem(f, g, p), p)

\* fmpz_mod_poly_evaluate_fmpz: Horner's rule from the leading coefficient.
RECURSIVE Horner(_, _, _, _)
Horner(f, i, x, p) ==
    IF i > Len(f) THEN 0 ELSE (f[i] + x * Horner(f, i + 1, x, p)) % p

Evaluate(f, x, p) == Horner(f, 1, x, p)

\* fmpz_mod_poly_powmod_fmpz_binexp_preinv: b^e mod f by binary
\* exponentiation (the precomputed inverse only speeds the reductions up).
RECURSIVE PowMod(_, _, _, _)
PowMod(b, e, f, p) ==
    IF e = 0 THEN PolyRem(<<1>>, f, p)
    ELSE LET h  == PowMod(b, e \div 2, f, p)
             h2 == PolyRem(PolyMul(h, h, p), f, p)
         IN  IF e % 2 = 1 THEN PolyRem(PolyMul(h2, b, p), f, p) ELSE h2

\* fmpz_mod_poly_shift_right
ShiftRight(f, n) == IF n >= Len(f) THEN << >> ELSE SubSeq(f, n + 1, Len(f))

\* The linear factor x - r.
Linear(r, p) == <<NegMod(r, p), 1>>

\* The root of a monic linear factor.
RootOf(lin, p) == NegMod(lin[1], p)

\* FLINT_BIT_COUNT of a non-negative degree.
RECURSIVE FLINT_BIT_COUNT(_)
FLINT_BIT_COUNT(n) == IF n <= 0 THEN 0 ELSE 1 + FLINT_BIT_COUNT(n \div 2)

(* ------------------- external collaborators of roots.c ---------------- *)

\* The monic polynomial with the simple roots S.
RECURSIVE PolyFromRoots(_, _)
PolyFromRoots(S, p) ==
    IF S = {} THEN <<1>>
    ELSE LET x == CHOOSE y \in S : TRUE
         IN  PolyMul(Linear(x, p), PolyFromRoots(S \ {x}, p), p)

\* The field elements at which g vanishes.
Roots(g, p) == {x \in 0..(p - 1) : Evaluate(g, x, p) = 0}

\* fmpz_mod_poly_derivative
Derivative(g, p) == Norm([k \in 1..(Len(g) - 1) |-> (k * g[k + 1]) % p])

\* The p-th root of a polynomial in x^p.
PthRoot(g, p) == [k \in 1..((Len(g) - 1) \div p + 1) |-> g[(k - 1) * p + 1]]

\* Every exponent of the list multiplied by p.
PowFactors(fac, p) == [k \in 1..Len(fac) |-> [fac[k] EXCEPT !.exp = @ * p]]

\* The loop of the squarefree factorisation: g1 holds the factors of
\* multiplicity at least e once each, g what is left of them; the factors
\* found and the p-th power left over.
RECURSIVE SquarefreeLoop(_, _, _, _)
SquarefreeLoop(g1, g, e, p) ==
    IF Deg(g1) < 1 THEN [fac |-> << >>, g |-> g]
    ELSE LET h    == PolyGcd(g1, g, p)
             z    == PolyDiv(g1, h, p)
             rest == SquarefreeLoop(h, PolyDiv(g, h, p), e + 1, p)
         IN  [fac |-> (IF Deg(z) >= 1 THEN <<[poly |-> z, exp |-> e]>> ELSE << >>)
                          \o rest.fac,
              g |-> rest.g]

\* fmpz_mod_poly_factor_squarefree on a monic g: the pairs (g_e, e), g_e the
\* product of the monic irreducible factors of multiplicity exactly e, by
\* gcds with the derivative; a polynomial in x^p is the p-th power of its
\* p-th root.
RECURSIVE SquarefreeMonic(_, _)
SquarefreeMonic(g, p) ==
    IF Deg(g) < 1 THEN << >>
    ELSE IF Derivative(g, p) = << >>
         THEN PowFactors(SquarefreeMonic(PthRoot(g, p), p), p)
         ELSE LET c == PolyGcd(g, Derivative(g, p), p)
                  y == SquarefreeLoop(PolyDiv(g, c, p), c, 1, p)
              IN  y.fac \o PowFactors(SquarefreeMonic(PthRoot(y.g, p), p), p)

Squarefree(g, p) == SquarefreeMonic(MakeMonic(g, p), p)

\* _fmpz_mod_poly_split_rabin on g, a product of at least two distinct
\* linear factors: the pairs <<c, d>> it may return, one for each way the
\* random shifts can part the roots into two non-empty sets.
SplitRabin(g, p) ==
    LET R == Roots(g, p)
    IN  {<<PolyFromRoots(S, p), PolyDiv(g, PolyFromRoots(S, p), p)>> :
             S \in (SUBSET R) \ {{}, R}}

\* fmpz_mod_poly_factor_fit_length: room for at least len entries, each an
\* initialised polynomial; the capacity never shrinks.
FitLength(alloc, len) == IF len > alloc THEN len ELSE alloc

(* ------------------------------- state -------------------------------- *)

\* The word width of the build.
FLINT_BITS == WordBits

VARIABLES
    pc,                 \* where the call is
    p,                  \* f->p, the field order
    f,                  \* the input polynomial of fmpz_mod_poly_roots
    with_multiplicity,
    r,                  \* the output: entries 1..r->num, each [poly, exp]
    alloc,              \* r->alloc: the initialised entries of r->poly
    p2,                 \* the half exponent (p - 1)/2
    sqf,                \* the squarefree factors, each [poly, exp]
    i,                  \* the loop index over sqf
    t0,                 \* workspace slot t + 0
    stack,              \* workspace slots t + 3 ..: the engine's stack
    sp,                 \* the engine's stack pointer
    mult,               \* the engine's exponent argument
    alive,              \* the resources of the call now initialised
    released,           \* the resources of the call released so far
    badrel,             \* a release of something not initialised happened
    hiwater,            \* the largest stack index accessed so far
    ordered,            \* every split so far returned deg c >= deg d
    resv,               \* [num, want]: r->num and the degrees at line 118
    usedHalfp           \* the engine has read halfp

vars == <<pc, p, f, with_multiplicity, r, alloc, p2, sqf, i, t0, stack, sp,
          mult, alive, released, badrel, hiwater, ordered, resv, usedHalfp>>

\* The input polynomials over the field of order q.
Inputs(q) ==
    {<< >>} \cup UNION {{s \in [1..n -> 0..(q - 1)] : s[n] \in Leads(q)} :
                           n \in 1..(MaxDeg + 1)}

\* The workspace t[0 .. FLINT_BITS + 2], and the scratch of the call.
Workspace == {<<"t", k>> : k \in 0..(FLINT_BITS + 2)}

Scratch == Workspace \cup {<<"p2", 0>>, <<"randstate", 0>>}

SqfResources(n) == {<<"sqf", 0>>} \cup {<<"sqfpoly", k>> : k \in 1..n}

\* The polynomial the engine's argument f points to: sqf->poly + i or t + 0.
EngF == IF with_multiplicity THEN sqf[i + 1].poly ELSE t0

EngFId == IF with_multiplicity THEN <<"sqfpoly", i + 1>> ELSE <<"t", 0>>

SetEngF(v) ==
    /\ sqf' = IF with_multiplicity THEN [sqf EXCEPT ![i + 1].poly = v] ELSE sqf
    /\ t0' = IF with_multiplicity THEN t0 ELSE v

Init ==
    /\ pc = "roots"
    /\ p \in Primes
    /\ f \in Inputs(p)
    /\ with_multiplicity \in BOOLEAN
    /\ r = << >>
    /\ alloc \in Allocs
    /\ p2 = 0
    /\ sqf = << >>
    /\ i = 0
    /\ t0 = << >>
    /\ stack = [k \in 0..(FLINT_BITS - 1) |-> << >>]
    /\ sp = 0
    /\ mult = 0
    /\ alive = {}
    /\ released = {}
    /\ badrel = FALSE
    /\ hiwater = -1
    /\ ordered = TRUE
    /\ resv = [num |-> 0, want |-> 0]
    /\ usedHalfp = FALSE

(* --------------------------- fmpz_mod_poly_roots ---------------------- *)

\* Lines 180-184 with the mistake of throwing after the scratch of the call
\* was initialised.
RootsZeroLate ==
    /\ pc = "roots"
    /\ Deg(f) < 0
    /\ r' = << >>
    /\ p2' = (p - 1) \div 2
    /\ alive' = alive \cup Scratch
    /\ pc' = "thrown"
    /\ UNCHANGED <<p, f, with_multiplicity, alloc, sqf, i, t0, stack, sp,
                   mult, released, badrel, hiwater, ordered, resv, usedHalfp>>

\* Lines 180-184: the zero polynomial; flint_throw does not return.
RootsZero ==
    /\ pc = "roots"
    /\ Deg(f) < 0
    /\ r' = << >>
    /\ pc' = "thrown"
    /\ UNCHANGED <<p, f, with_multiplicity, alloc, p2, sqf, i, t0, stack, sp,
                   mult, alive, released, badrel, hiwater, ordered, resv,
                   usedHalfp>>

\* Lines 168-185 with degree 0: nothing to report.
RootsConstant ==
    /\ pc = "roots"
    /\ Deg(f) = 0
    /\ r' = << >>
    /\ pc' = "done"
    /\ UNCHANGED <<p, f, with_multiplicity, alloc, p2, sqf, i, t0, stack, sp,
                   mult, alive, released, badrel, hiwater, ordered, resv,
                   usedHalfp>>

\* Lines 172-179: degree 1, the input made monic is the one factor.
RootsLinear ==
    /\ pc = "roots"
    /\ Deg(f) = 1
    /\ alloc' = FitLength(alloc, 1)
    /\ r' = <<[poly |-> MakeMonic(f, p), exp |-> 1]>>
    /\ pc' = "done"
    /\ UNCHANGED <<p, f, with_multiplicity, p2, sqf, i, t0, stack, sp, mult,
                   alive, released, badrel, hiwater, ordered, resv, usedHalfp>>

\* Lines 188-201: the scratch of the call and the squarefree factors.
RootsWithMultiplicity ==
    /\ pc = "roots"
    /\ Deg(f) >= 2
    /\ with_multiplicity
    /\ r' = << >>
    /\ p2' = (p - 1) \div 2
    /\ \E fac \in {Squarefree(f, p)} :
          /\ sqf' = fac
          /\ alive' = alive \cup Scratch \cup SqfResources(Len(fac))
    /\ i' = 0
    /\ pc' = "sqf_loop"
    /\ UNCHANGED <<p, f, with_multiplicity, alloc, t0, stack, sp, mult,
                   released, badrel, hiwater, ordered, resv, usedHalfp>>

\* Lines 202-205: the engine is called on the next squarefree factor.
RootsNextFactor ==
    /\ pc = "sqf_loop"
    /\ i < Len(sqf)
    /\ mult' = sqf[i + 1].exp
    /\ pc' = "push_roots"
    /\ UNCHANGED <<p, f, with_multiplicity, r, alloc, p2, sqf, i, t0, stack,
                   sp, alive, released, badrel, hiwater, ordered, resv,
                   usedHalfp>>

\* Line 202: the engine returned, i++.
RootsFactorDone ==
    /\ pc = "return"
    /\ with_multiplicity
    /\ i' = i + 1
    /\ pc' = "sqf_loop"
    /\ UNCHANGED <<p, f, with_multiplicity, r, alloc, p2, sqf, t0, stack, sp,
                   mult, alive, released, badrel, hiwater, ordered, resv,
                   usedHalfp>>

\* Lines 188-195 and 211-213: one engine call on the input made monic.
RootsWithoutMultiplicity ==
    /\ pc = "roots"
    /\ Deg(f) >= 2
    /\ ~with_multiplicity
    /\ r' = << >>
    /\ p2' = (p - 1) \div 2
    /\ alive' = alive \cup Scratch
    /\ t0' = MakeMonic(f, p)
    /\ mult' = 1
    /\ pc' = "push_roots"
    /\ UNCHANGED <<p, f, with_multiplicity, alloc, sqf, i, stack, sp,
                   released, badrel, hiwater, ordered, resv, usedHalfp>>

\* Lines 207 and 216-221 with the mistake of leaving line 207 out.
ClearedNoSqf == Scratch

\* What the exit of the call clears: lines 207 and 216-221.
Cleared == Scratch \cup (IF with_multiplicity THEN SqfResources(Len(sqf)) ELSE {})

\* Lines 207 and 216-221: the exit of either branch.
RootsRelease ==
    /\ \/ pc = "sqf_loop" /\ i >= Len(sqf)
       \/ pc = "return" /\ ~with_multiplicity
    /\ badrel' = (badrel \/ ~(Cleared \subseteq alive) \/ Cleared \cap released # {})
    /\ alive' = alive \ Cleared
    /\ released' = released \cup Cleared
    /\ pc' = "done"
    /\ UNCHANGED <<p, f, with_multiplicity, r, alloc, p2, sqf, i, t0, stack,
                   sp, mult, hiwater, ordered, resv, usedHalfp>>

(* ---------------------- _fmpz_mod_poly_push_roots --------------------- *)

\* An entry appended to the output.
Entry(g, e) == [poly |-> g, exp |-> e]

\* Lines 49-55 with the mistake of storing x itself as the constant term.
TinyEntryNoNeg(x, q, e) == Entry(<<x, 1>>, e)

\* Lines 49-55: the entry for the root x, the factor X - x.
TinyEntry(x, q, e) == Entry(<<NegMod(x, q), 1>>, e)

\* Lines 44-57 with the mistake of stopping one element early.
RECURSIVE TinyFieldLoopShort(_, _, _, _, _, _)
TinyFieldLoopShort(x, g, q, e, out, cap) ==
    IF ~(x < q - 1) THEN [r |-> out, alloc |-> cap]
    ELSE IF Evaluate(g, x, q) # 0
         THEN TinyFieldLoopShort(x + 1, g, q, e, out, cap)
         ELSE TinyFieldLoopShort(x + 1, g, q, e,
                                 Append(out, TinyEntry(x, q, e)),
                                 FitLength(cap, Len(out) + 1))

\* Lines 44-57: the loop over the field elements x, x + 1, ..., q - 1;
\* the output and its capacity after it.
RECURSIVE TinyFieldLoop(_, _, _, _, _, _)
TinyFieldLoop(x, g, q, e, out, cap) ==
    IF ~(x < q) THEN [r |-> out, alloc |-> cap]
    ELSE IF Evaluate(g, x, q) # 0
         THEN TinyFieldLoop(x + 1, g, q, e, out, cap)
         ELSE TinyFieldLoop(x + 1, g, q, e,
                            Append(out, TinyEntry(x, q, e)),
                            FitLength(cap, Len(out) + 1))

\* Lines 39-61: a field of order below 10 is searched exhaustively.
TinyField ==
    /\ pc = "push_roots"
    /\ p < 10
    /\ \E res \in {TinyFieldLoop(0, EngF, p, mult, r, alloc)} :
          r' = res.r /\ alloc' = res.alloc
    /\ pc' = "return"
    /\ UNCHANGED <<p, f, with_multiplicity, p2, sqf, i, t0, stack, sp, mult,
                   alive, released, badrel, hiwater, ordered, resv, usedHalfp>>

\* Lines 75-79 with the mistake of not dividing the power of x out.
ZeroRunNoStrip(g, k) == 0

\* Lines 75-77: the index of the first nonzero coefficient from k on.
RECURSIVE ZeroRun(_, _)
ZeroRun(g, k) == IF k < Len(g) /\ Coef(g, k) = 0 THEN ZeroRun(g, k + 1) ELSE k

\* Lines 64-80: zero is a root; it is reported and the power of x divided out.
ZeroRoots ==
    /\ pc = "push_roots"
    /\ ~(p < 10)
    /\ Coef(EngF, 0) = 0
    /\ alloc' = FitLength(alloc, Len(r) + 1)
    /\ r' = Append(r, Entry(<<0, 1>>, mult))
    /\ SetEngF(ShiftRight(EngF, ZeroRun(EngF, 1)))
    /\ pc' = "reduced"
    /\ UNCHANGED <<p, f, with_multiplicity, p2, i, stack, sp, mult, alive,
                   released, badrel, hiwater, ordered, resv, usedHalfp>>

\* The engine is at line 82.
AtDegreeTest ==
    \/ pc = "reduced"
    \/ pc = "push_roots" /\ ~(p < 10) /\ Coef(EngF, 0) # 0

\* Lines 82-93: what is left has degree at most 1. The swap of line 88
\* leaves in f the polynomial r->poly + r->num held, which is an initialised
\* one when that entry lies below r->alloc.
DegreeLeOne ==
    /\ AtDegreeTest
    /\ Deg(EngF) <= 1
    /\ IF Deg(EngF) = 1
       THEN /\ alloc' = FitLength(alloc, Len(r) + 1)
            /\ r' = Append(r, Entry(EngF, mult))
            /\ SetEngF(<< >>)
            /\ alive' = IF Len(r) < alloc' THEN alive ELSE alive \ {EngFId}
       ELSE UNCHANGED <<alloc, r, sqf, t0, alive>>
    /\ pc' = "return"
    /\ UNCHANGED <<p, f, with_multiplicity, p2, i, stack, sp, mult, released,
                   badrel, hiwater, ordered, resv, usedHalfp>>

\* Lines 96-116 with the mistake of adding 2 to x^halfp instead of to
\* x^halfp - 1.
FirstSplitPlusTwo(g, halfp, q) ==
    LET t  == PowMod(<<0, 1>>, halfp, g, q)
        a0 == PolyGcd(PolySub(t, <<1>>, q), g, q)
        b0 == PolyGcd(PolyAdd(t, <<2>>, q), g, q)
    IN  IF Deg(a0) < Deg(b0) THEN [a |-> b0, b |-> a0] ELSE [a |-> a0, b |-> b0]

\* Lines 96-116: a = gcd(x^halfp - 1, g) and b = gcd(x^halfp + 1, g),
\* swapped so that deg a >= deg b.
FirstSplit(g, halfp, q) ==
    LET t  == PowMod(<<0, 1>>, halfp, g, q)
        a0 == PolyGcd(PolySub(t, <<1>>, q), g, q)
        b0 == PolyGcd(PolyAdd(t, <<1>>, q), g, q)
    IN  IF Deg(a0) < Deg(b0) THEN [a |-> b0, b |-> a0] ELSE [a |-> a0, b |-> b0]

\* Lines 118-119 with the mistake of leaving deg b out.
ReserveOnlyA(num, a, b) == num + Deg(a)

\* Lines 118-119: the length the output is asked to have room for.
Reserve(num, a, b) == num + Deg(a) + Deg(b)

\* Line 122: the initial split failed if b = 1.
FirstSp(b) == IF Deg(b) > 0 THEN 2 ELSE 1

\* Lines 95-122: the first split, by x^halfp - 1 and x^halfp + 1.
GeneralSplit ==
    /\ AtDegreeTest
    /\ Deg(EngF) > 1
    /\ \E ab \in {FirstSplit(EngF, p2, p)} :
          /\ stack' = [stack EXCEPT ![0] = ab.a, ![1] = ab.b]
          /\ alloc' = FitLength(alloc, Reserve(Len(r), ab.a, ab.b))
          /\ resv' = [num |-> Len(r), want |-> Deg(ab.a) + Deg(ab.b)]
          /\ sp' = FirstSp(ab.b)
    /\ hiwater' = IF hiwater < 1 THEN 1 ELSE hiwater
    /\ usedHalfp' = TRUE
    /\ pc' = "drain"
    /\ UNCHANGED <<p, f, with_multiplicity, r, p2, sqf, i, t0, mult, alive,
                   released, badrel, ordered>>

\* Lines 123-141: the popped polynomial has degree at most 1.
DrainLinear ==
    /\ pc = "drain"
    /\ sp > 0
    /\ Deg(stack[sp - 1]) <= 1
    /\ sp' = sp - 1
    /\ stack' = [stack EXCEPT ![sp - 1] = EngF]
    /\ SetEngF(stack[sp - 1])
    /\ r' = IF Deg(stack[sp - 1]) = 1
            THEN Append(r, Entry(stack[sp - 1], mult)) ELSE r
    /\ hiwater' = IF hiwater < sp - 1 THEN sp - 1 ELSE hiwater
    /\ UNCHANGED <<pc, p, f, with_multiplicity, alloc, p2, i, mult, alive,
                   released, badrel, ordered, resv, usedHalfp>>

\* Lines 146-147 with the two output arguments exchanged.
SplitSlotsExchanged(st, k, cd) == [st EXCEPT ![k] = cd[2], ![k + 1] = cd[1]]

\* Lines 146-147: the parts go to stack + sp + 0 and stack + sp + 1.
SplitSlots(st, k, cd) == [st EXCEPT ![k] = cd[1], ![k + 1] = cd[2]]

\* Line 153 with the mistake of advancing by 1: the second part is dropped.
SpAfterSplitOne(k) == k + 1

\* Line 153 with the mistake of advancing by 3.
SpAfterSplitThree(k) == k + 3

\* Line 153: sp += 2.
SpAfterSplit(k) == k + 2

\* Lines 123-129 and 142-154: the popped polynomial is split, the parts
\* written to the slot it came from and the one above.
DrainSplit ==
    /\ pc = "drain"
    /\ sp > 0
    /\ Deg(stack[sp - 1]) > 1
    /\ sp < FLINT_BITS
    /\ \E cd \in SplitRabin(stack[sp - 1], p) :
          /\ stack' = SplitSlots(stack, sp - 1, cd)
          /\ ordered' = (ordered /\ Deg(cd[1]) >= Deg(cd[2]))
    /\ SetEngF(stack[sp - 1])
    /\ sp' = SpAfterSplit(sp - 1)
    /\ hiwater' = IF hiwater < sp THEN sp ELSE hiwater
    /\ UNCHANGED <<pc, p, f, with_multiplicity, r, alloc, p2, i, mult, alive,
                   released, badrel, resv, usedHalfp>>

\* Lines 146-147 with sp + 1 = FLINT_BITS: the second part is written past
\* the last slot of the workspace, and what the build does from there on is
\* not defined by the source.
DrainOverflow ==
    /\ pc = "drain"
    /\ sp > 0
    /\ Deg(stack[sp - 1]) > 1
    /\ ~(sp < FLINT_BITS)
    /\ hiwater' = sp
    /\ pc' = "undefined"
    /\ UNCHANGED <<p, f, with_multiplicity, r, alloc, p2, sqf, i, t0, stack,
                   sp, mult, alive, released, badrel, ordered, resv, usedHalfp>>

\* Line 123: the stack is empty, the engine returns.
DrainDone ==
    /\ pc = "drain"
    /\ ~(sp > 0)
    /\ pc' = "return"
    /\ UNCHANGED <<p, f, with_multiplicity, r, alloc, p2, sqf, i, t0, stack,
                   sp, mult, alive, released, badrel, hiwater, ordered, resv,
                   usedHalfp>>

Next ==
    \/ RootsZero
    \/ RootsConstant
    \/ RootsLinear
    \/ RootsWithMultiplicity
    \/ RootsNextFactor
    \/ RootsFactorDone
    \/ RootsWithoutMultiplicity
    \/ RootsRelease
    \/ TinyField
    \/ ZeroRoots
    \/ DegreeLeOne
    \/ GeneralSplit
    \/ DrainLinear
    \/ DrainSplit
    \/ DrainOverflow
    \/ DrainDone

Spec == Init /\ [][Next]_vars

(* ------------------------------- claims ------------------------------- *)

RECURSIVE SumExp(_)
SumExp(out) == IF out = << >> THEN 0 ELSE out[1].exp + SumExp(Tail(out))

\* The largest k such that (X - x)^k divides the nonzero g.
RECURSIVE Multiplicity(_, _, _)
Multiplicity(g, x, q) ==
    IF Deg(g) >= 1 /\ Evaluate(g, x, q) = 0
    THEN 1 + Multiplicity(PolyDiv(g, Linear(x, q), q), x, q)
    ELSE 0

\* The elements of S in increasing order.
RECURSIVE SortedSeq(_)
SortedSeq(S) ==
    IF S = {} THEN << >>
    ELSE LET m == CHOOSE y \in S : \A z \in S : y <= z
         IN  <<m>> \o SortedSeq(S \ {m})

\* The sum of the degrees of the polynomials in slots 0 .. n - 1.
RECURSIVE StackDegrees(_, _)
StackDegrees(st, n) ==
    IF n <= 0 THEN 0
    ELSE (IF Deg(st[n - 1]) > 0 THEN Deg(st[n - 1]) ELSE 0) + StackDegrees(st, n - 1)

\* The iterations the drain loop has left: a polynomial of degree d >= 1 on
\* the stack costs d pops of a linear factor and d - 1 splits.
RECURSIVE Iterations(_, _)
Iterations(st, n) ==
    IF n <= 0 THEN 0
    ELSE (IF Deg(st[n - 1]) >= 1 THEN 2 * Deg(st[n - 1]) - 1 ELSE 1)
             + Iterations(st, n - 1)

\* The bit-width bound of slot k.
SlotFits(st, k) ==
    /\ Deg(st[k]) >= 0
    /\ FLINT_BIT_COUNT(Deg(st[k])) <= FLINT_BITS - k

\* C1: after the call on a nonzero f of degree d, every entry of the output
\* is a monic linear factor X - x with f(x) = 0 and a positive exponent, and
\* the exponents sum to at most d.
C1_Soundness ==
    (pc = "done" /\ Deg(f) >= 0) =>
        /\ \A k \in 1..Len(r) :
              /\ Len(r[k].poly) = 2
              /\ r[k].poly[2] = 1
              /\ r[k].exp >= 1
              /\ Evaluate(f, RootOf(r[k].poly, p), p) = 0
        /\ SumExp(r) <= Deg(f)

\* C1 witness: a call with multiplicities over the field of order 11 that
\* went through the splits and reported three roots.
C1_Witness ==
    /\ pc = "done"
    /\ p = 11
    /\ with_multiplicity
    /\ hiwater >= 0
    /\ Len(r) = 3

\* C2: after the call on a nonzero f, every field element x with f(x) = 0
\* is in the output as X - x, with the multiplicity of x in f as exponent
\* when multiplicities were asked for and with exponent 1 otherwise.
C2_Completeness ==
    (pc = "done" /\ Deg(f) >= 0) =>
        \A x \in 0..(p - 1) :
            Evaluate(f, x, p) = 0 =>
                \E k \in 1..Len(r) :
                    /\ r[k].poly = Linear(x, p)
                    /\ r[k].exp = IF with_multiplicity
                                  THEN Multiplicity(f, x, p) ELSE 1

\* C2 witness: p = 11 and f = (x - 1)^3 with multiplicities gives {1: 3}.
C2_Witness ==
    /\ pc = "done"
    /\ p = 11
    /\ f = <<10, 3, 8, 1>>
    /\ with_multiplicity
    /\ r = <<[poly |-> <<10, 1>>, exp |-> 3]>>

\* C3: the call on the zero polynomial throws, and it is the only call that
\* does; when it throws the output is empty and no scratch of the call (the
\* workspace, the random source, the half exponent) was initialised or
\* released.
C3_ZeroPolynomial ==
    /\ (Deg(f) < 0 /\ pc # "roots") =>
           /\ pc = "thrown"
           /\ Len(r) = 0
           /\ alive = {}
           /\ released = {}
           /\ ~badrel
           /\ p2 = 0
    /\ pc = "thrown" => Deg(f) < 0

\* C3 witness: the zero polynomial was thrown on, multiplicities asked for.
C3_Witness == pc = "thrown" /\ f = << >> /\ with_multiplicity

\* C4: no two entries of the output are the same linear factor, at any
\* point of the call.
C4_NoDuplicates ==
    \A j, k \in 1..Len(r) : j # k => r[j].poly # r[k].poly

\* C4 witness: a call with multiplicities over the field of order 11 came
\* back with roots of two squarefree factors, zero among them.
C4_Witness ==
    /\ pc = "done"
    /\ p = 11
    /\ with_multiplicity
    /\ Len(sqf) >= 2
    /\ Len(r) >= 2
    /\ \E k \in 1..Len(r) : r[k].poly = <<0, 1>>

EngineRank(c) ==
    CASE c = "push_roots" -> 0
      [] c = "reduced"    -> 1
      [] c = "drain"      -> 2
      [] OTHER            -> 3

\* What the drain loop needs to get past a polynomial of degree above 1: room
\* for the two parts, and a polynomial the splitter can part (a product of
\* distinct linear factors, so that some shift parts its roots).
SplitPossible ==
    /\ pc # "undefined"
    /\ (pc = "drain" /\ sp > 0 /\ Deg(stack[sp - 1]) > 1) =>
           /\ sp < FLINT_BITS
           /\ Cardinality(Roots(stack[sp - 1], p)) = Deg(stack[sp - 1])

\* Within one execution the engine never goes back, and stays where it is
\* only in the drain loop.
OnlyDrainRevisited ==
    [][(pc \in {"push_roots", "reduced", "drain"}
          /\ pc' \in {"push_roots", "reduced", "drain", "return"}) =>
              /\ EngineRank(pc') >= EngineRank(pc)
              /\ (pc' = pc => pc = "drain")]_vars

\* Every iteration of the drain loop, a pop of a polynomial of degree at
\* most 1 or a split, leaves one iteration less to do.
DrainProgress ==
    [][(pc = "drain" /\ pc' = "drain") =>
           Iterations(stack', sp') = Iterations(stack, sp) - 1]_vars

C8_ScratchLifecycle ==
    pc \in {"done", "thrown"} =>
        /\ alive = {}
        /\ ~badrel
        /\ released = IF Deg(f) < 2 THEN {}
                      ELSE Scratch \cup
                           (IF with_multiplicity
                            THEN SqfResources(Len(sqf)) ELSE {})

\* C8 witness: a call with multiplicities ended after line 88 swapped a
\* squarefree factor of degree 1 with an entry of the output.
C8_Witness ==
    /\ pc = "done"
    /\ with_multiplicity
    /\ p >= 10
    /\ hiwater = -1
    /\ Len(r) >= 1
    /\ r[1].poly[1] # 0
    /\ <<"sqfpoly", 1>> \in released

\* C9: an engine call over a field of order below 10 appends one entry
\* (X - x, mult) for each root x of f, in increasing x, and returns at once:
\* f, the stack and the stack pointer are as they were and the half exponent
\* is unread. p = 7 and f = x^2 + 1 give the empty output.
C9_TinyFieldFirst ==
    [][/\ (pc = "push_roots" /\ p < 10) =>
              /\ pc' = "return"
              /\ LET xs == SortedSeq(Roots(EngF, p))
                 IN  r' = r \o [k \in 1..Len(xs) |->
                                   [poly |-> Linear(xs[k], p), exp |-> mult]]
              /\ sqf' = sqf
              /\ t0' = t0
              /\ stack' = stack
              /\ sp' = sp
              /\ hiwater' = -1
              /\ ~usedHalfp'
       /\ (pc' = "done" /\ p = 7 /\ f = <<1, 0, 1>>) => r' = << >>]_vars

\* C9 witness: the engine returned over the field of order 7 from an f with
\* constant term 0 and a second root.
C9_Witness ==
    /\ pc = "return"
    /\ p = 7
    /\ ~with_multiplicity
    /\ Coef(t0, 0) = 0
    /\ Len(r) = 2
    /\ r[1].poly = <<0, 1>>

\* C10: in the drain loop the entries appended since line 118 and the
\* degrees on the stack add up to deg a + deg b, the output has room for
\* r->num of line 118 plus deg a + deg b entries, and a linear factor about
\* to be popped finds r->num < r->alloc.
C10_OutputCapacity ==
    pc = "drain" =>
        /\ (Len(r) - resv.num) + StackDegrees(stack, sp) = resv.want
        /\ resv.num + resv.want <= alloc
        /\ (sp > 0 /\ Deg(stack[sp - 1]) = 1) => Len(r) < alloc

\* C10 witness: the stack is empty and the output holds exactly the entries
\* room was made for, the last of them appended by the drain loop.
C10_Witness ==
    /\ pc = "drain"
    /\ sp = 0
    /\ resv.want >= 2
    /\ Len(r) = alloc
    /\ Len(r) - resv.num = resv.want

====
